---- MODULE Spec2Model ----
(***************************************************************************)
(* Model of plugins/modules/oracle_db.py and of                           *)
(* plugins/modules/oracle_datapatch.py: one run of a module ("a pass")    *)
(* as a state machine over the live instance, the instance registries     *)
(* and the module's own variables.                                        *)
(*                                                                         *)
(* Strings whose content the code inspects (names, oratab lines, paths)   *)
(* are sequences of one-character strings, so that "in", re.search,       *)
(* startswith, split and rstrip are computed as Python computes them.     *)
(***************************************************************************)
EXTENDS Integers, Sequences, FiniteSets, TLC

\* ------------------------------------------------------------------ bounds
\* Number of consecutive runs of the module with the same parameters.
MaxPasses == 2
\* Number of lines of /etc/oratab in the locator specification.
MaxOratab == 2

\* ----------------------------------------------------------------- strings
None == <<"None">>                  \* Python's None, for string parameters
Empty == <<>>                       \* Python's ''
ORCL == <<"o", "r", "c", "l">>      \* db_name
MYORCL == <<"m", "y">> \o ORCL      \* a key that contains db_name
ORCL1 == ORCL \o <<"1">>            \* sid / instance_name
ORCLU == ORCL \o <<"u">>            \* db_unique_name
XDB == <<"x", "d", "b">>           \* an unrelated key
HOME_A == <<"/", "a">>
HOME_B == <<"/", "b">>
HOME_B_SLASH == HOME_B \o <<"/">>

\* str.startswith(p)
StartsWith(s, p) == Len(s) >= Len(p) /\ SubSeq(s, 1, Len(p)) = p

\* "p in s" and, for a pattern without metacharacters, re.search(p, s)
Contains(s, p) ==
    \E i \in 1..(Len(s) - Len(p) + 1) : SubSeq(s, i, i + Len(p) - 1) = p

\* re.search('^' + p, s)
SearchAtStart(s, p) == StartsWith(s, p)

\* str.rstrip('/')
RECURSIVE RStripSlash(_)
RStripSlash(s) ==
    IF Len(s) > 0 /\ s[Len(s)] = "/" THEN RStripSlash(SubSeq(s, 1, Len(s) - 1)) ELSE s

\* s.split(':'): the list of fields
RECURSIVE SplitColon(_)
SplitColon(s) ==
    IF \A i \in 1..Len(s) : s[i] # ":"
    THEN <<s>>
    ELSE LET k == CHOOSE i \in 1..Len(s) : s[i] = ":" /\ \A j \in 1..(i - 1) : s[j] # ":"
         IN  <<SubSeq(s, 1, k - 1)>> \o SplitColon(SubSeq(s, k + 1, Len(s)))

\* s.split(':')[1]
SplitField1(s) == SplitColon(s)[2]

\* a line of /etc/oratab: key:home:N
OratabLine(key, home) == key \o <<":">> \o home \o <<":", "N">>
CommentLine(key, home) == <<"#">> \o OratabLine(key, home)

\* ---------------------------------------------------- check_db_exists
\* Python values returned by check_db_exists: "True", "False", "None" (the
\* function falls off its end), or "fail_json" (the module exits in failure).
Truthy(v) == v = "True"

\* The answer of "srvctl config database -d <checkdb>" for each state of the
\* cluster registry; whatever the registry holds, srvctl itself may fail.
SrvctlError == [rc |-> 1, stdout |-> {}]
NoAnswer == [rc |-> 0, stdout |-> {}]       \* srvctl was not run
SrvctlAnswers(registry) ==
    { CASE registry = "registered" -> [rc |-> 0, stdout |-> {"Database name: db_name"}]
        [] registry = "differenthome" -> [rc |-> 1, stdout |-> {"PRCD-1229", "db_name"}]
        [] registry = "unregistered" -> [rc |-> 1, stdout |-> {"PRCD-1120", "db_name"}]
        [] registry = "registered_unnamed" ->
              [rc |-> 0, stdout |-> {"Database unique name: checkdb"}],
      SrvctlError }

\* oracle_db.check_db_exists, cluster-managed branch
check_db_exists_gi_lax(answer) ==
    IF answer.rc # 0 THEN "False" ELSE "True"

check_db_exists_gi(answer) ==
    IF answer.rc # 0
    THEN IF "PRCD-1229" \in answer.stdout THEN "fail_json" ELSE "False"
    ELSE "True"

\* the lines of /etc/oratab kept in existingdbs
existingdbs(oratab, db_name, sid) ==
    LET keep(line) ==
            /\ ~(StartsWith(line, <<"#">>) \/ StartsWith(line, <<" ">>))
            /\ (Contains(line, db_name \o <<":">>) \/ Contains(line, sid \o <<":">>))
    IN  SelectSeq(oratab, keep)

\* the "for dbs in existingdbs" loop: the first line that passes the test
\* decides; no such line and the function returns None
RECURSIVE scan_existingdbs(_, _, _, _)
scan_existingdbs(dbs_list, oracle_home, db_name, sid) ==
    IF dbs_list = <<>> THEN "None"
    ELSE LET dbs == Head(dbs_list)
             hit == IF sid # Empty
                    THEN Contains(dbs, db_name \o <<":">>) \/ Contains(dbs, sid \o <<":">>)
                    ELSE Contains(dbs, db_name \o <<":">>)
         IN  IF hit
             THEN IF SplitField1(dbs) # RStripSlash(oracle_home) THEN "fail_json" ELSE "True"
             ELSE scan_existingdbs(Tail(dbs_list), oracle_home, db_name, sid)

\* oracle_db.check_db_exists, standalone branch
check_db_exists_oratab(oratab, oracle_home, db_name, sid_param) ==
    LET sid == IF sid_param = None THEN Empty ELSE sid_param
        found == existingdbs(oratab, db_name, sid)
    IN  IF found = <<>> THEN "False"
        ELSE scan_existingdbs(found, oracle_home, db_name, sid)

check_db_exists(gimanaged, answer, oratab, oracle_home, db_name, sid, db_unique_name) ==
    IF gimanaged THEN check_db_exists_gi(answer)
    ELSE check_db_exists_oratab(oratab, oracle_home, db_name, sid)

\* the database srvctl is asked about
checkdb(db_name, db_unique_name) ==
    IF db_unique_name # None THEN db_unique_name ELSE db_name

\* ------------------------------------------------------- observation
\* The lower-cased property values of the model, in the order "order by 1"
\* puts them (binary string order).
ValueOrder == <<"aux", "bigfile", "data", "smallfile", "temp", "users", "work">>
Rank(v) == CHOOSE i \in 1..Len(ValueOrder) : ValueOrder[i] = v

RECURSIVE InsertSorted(_, _)
InsertSorted(v, sorted) ==
    IF sorted = <<>> THEN <<v>>
    ELSE IF Rank(v) <= Rank(Head(sorted)) THEN <<v>> \o sorted
    ELSE <<Head(sorted)>> \o InsertSorted(v, Tail(sorted))

RECURSIVE OrderBy1(_)
OrderBy1(rows) ==
    IF rows = <<>> THEN <<>> ELSE InsertSorted(Head(rows), OrderBy1(Tail(rows)))

\* propsql: the three property values of database_properties, ordered by value
propsql(live) ==
    OrderBy1(<<live.default_tbs_type, live.default_permanent_tablespace,
               live.default_temp_tablespace>>)

\* what ensure_db_state reads from the instance: the rows of propsql unpacked
\* positionally, v$instance and v$database
observe(live) ==
    LET rows == propsql(live)
    IN  [def_tbs_type |-> rows[1], def_tbs |-> rows[2], def_temp_tbs |-> rows[3],
         parallel |-> live.parallel, instance_name |-> live.instance_name,
         log_mode |-> live.log_mode, force_logging |-> live.force_logging,
         flashback_on |-> live.flashback_on]

NoObservation ==
    [def_tbs_type |-> "", def_tbs |-> "", def_temp_tbs |-> "", parallel |-> "",
     instance_name |-> Empty, log_mode |-> "", force_logging |-> "", flashback_on |-> ""]

\* ------------------------------------------------------------ planning
Stmt(sql, arg) == [sql |-> sql, arg |-> arg]
NoStmt == Stmt("", "")

archcomp(p) == IF p.archivelog THEN "ARCHIVELOG" ELSE "NOARCHIVELOG"
archsql(p) == IF p.archivelog THEN Stmt("alter database archivelog", "")
              ELSE Stmt("alter database noarchivelog", "")
flcomp(p) == IF p.force_logging THEN "YES" ELSE "NO"
flsql(p) == IF p.force_logging THEN Stmt("alter database force logging", "")
            ELSE Stmt("alter database no force logging", "")
fbcomp(p) == IF p.flashback THEN "YES" ELSE "NO"
fbsql(p) == IF p.flashback THEN Stmt("alter database flashback on", "")
            ELSE Stmt("alter database flashback off", "")

\* the statements that need no restart, in the order the code appends them
change_db_sql(p, obs) ==
    (IF obs.def_tbs_type # p.default_tablespace_type
     THEN <<Stmt("alter database set default tablespace type", p.default_tablespace_type)>>
     ELSE <<>>)
    \o (IF p.default_tablespace # "None" /\ obs.def_tbs # p.default_tablespace
        THEN <<Stmt("alter database default tablespace", p.default_tablespace)>>
        ELSE <<>>)
    \o (IF p.default_temp_tablespace # "None" /\ obs.def_temp_tbs # p.default_temp_tablespace
        THEN <<Stmt("alter database default temporary tablespace", p.default_temp_tablespace)>>
        ELSE <<>>)
    \o (IF obs.force_logging # flcomp(p) THEN <<flsql(p)>> ELSE <<>>)
    \o (IF obs.flashback_on # fbcomp(p) THEN <<fbsql(p)>> ELSE <<>>)

\* the statements that need a restart
change_restart_sql_with_flashback(p, obs) ==
    (IF obs.log_mode # archcomp(p) THEN <<archsql(p)>> ELSE <<>>)
    \o (IF obs.flashback_on # fbcomp(p) THEN <<fbsql(p)>> ELSE <<>>)

change_restart_sql_with_force_logging(p, obs) ==
    (IF obs.log_mode # archcomp(p) THEN <<archsql(p)>> ELSE <<>>)
    \o (IF obs.force_logging # flcomp(p) THEN <<flsql(p)>> ELSE <<>>)

change_restart_sql(p, obs) ==
    IF obs.log_mode # archcomp(p) THEN <<archsql(p)>> ELSE <<>>

\* "Flashback database needs to be turned off before archivelog is turned off"
norestart_first_never(p, obs) == FALSE

norestart_first_ignores_flashback(p, obs) ==
    obs.log_mode = "ARCHIVELOG" /\ ~p.archivelog

norestart_first(p, obs) ==
    obs.log_mode = "ARCHIVELOG" /\ obs.flashback_on = "YES" /\ ~p.archivelog /\ ~p.flashback

\* the batches ensure_db_state applies, in order; an empty list is skipped
batches_restart_first(p, obs) ==
    (IF Len(change_restart_sql(p, obs)) > 0 THEN <<"restart">> ELSE <<>>)
    \o (IF Len(change_db_sql(p, obs)) > 0 THEN <<"norestart">> ELSE <<>>)

batches(p, obs) ==
    LET nr == IF Len(change_db_sql(p, obs)) > 0 THEN <<"norestart">> ELSE <<>>
        rs == IF Len(change_restart_sql(p, obs)) > 0 THEN <<"restart">> ELSE <<>>
    IN  IF norestart_first(p, obs) THEN nr \o rs ELSE rs \o nr

\* what a statement does to the instance when it succeeds
apply_sql(live, stmt) ==
    CASE stmt.sql = "alter database archivelog" -> [live EXCEPT !.log_mode = "ARCHIVELOG"]
      [] stmt.sql = "alter database noarchivelog" -> [live EXCEPT !.log_mode = "NOARCHIVELOG"]
      [] stmt.sql = "alter database force logging" -> [live EXCEPT !.force_logging = "YES"]
      [] stmt.sql = "alter database no force logging" -> [live EXCEPT !.force_logging = "NO"]
      [] stmt.sql = "alter database flashback on" -> [live EXCEPT !.flashback_on = "YES"]
      [] stmt.sql = "alter database flashback off" -> [live EXCEPT !.flashback_on = "NO"]
      [] stmt.sql = "alter database set default tablespace type" ->
            [live EXCEPT !.default_tbs_type = stmt.arg]
      [] stmt.sql = "alter database default tablespace" ->
            [live EXCEPT !.default_permanent_tablespace = stmt.arg]
      [] stmt.sql = "alter database default temporary tablespace" ->
            [live EXCEPT !.default_temp_tablespace = stmt.arg]

\* ------------------------------------------------------------ commands
\* One entry of the log of what a pass issued: an external command, a
\* connection, a query, a statement or the settling delay.
Op(op, cmd, target, inst, stmt, ok) ==
    [op |-> op, cmd |-> cmd, target |-> target, inst |-> inst, stmt |-> stmt, ok |-> ok]

\* stop_db: the whole database through srvctl, or ORACLE_SID and sqlplus
stop_db_by_name(gimanaged, db_name, db_unique_name, sid, ok) ==
    IF gimanaged
    THEN Op("stop", "srvctl stop database -o immediate",
            IF db_unique_name # None THEN db_unique_name ELSE db_name, Empty, NoStmt, ok)
    ELSE Op("stop", "sqlplus shutdown immediate", db_name, Empty, NoStmt, ok)

stop_db(gimanaged, db_name, db_unique_name, sid, ok) ==
    IF gimanaged
    THEN Op("stop", "srvctl stop database -o immediate",
            IF db_unique_name # None THEN db_unique_name ELSE db_name, Empty, NoStmt, ok)
    ELSE Op("stop", "sqlplus shutdown immediate",
            IF sid # None THEN sid ELSE db_name, Empty, NoStmt, ok)

\* start_db
start_db_mounts(gimanaged, db_name, db_unique_name, sid, ok) ==
    IF gimanaged
    THEN Op("mount", "srvctl start database -o mount",
            IF db_unique_name # None THEN db_unique_name ELSE db_name, Empty, NoStmt, ok)
    ELSE Op("mount", "sqlplus startup mount",
            IF sid # None THEN sid ELSE db_name, Empty, NoStmt, ok)

start_db(gimanaged, db_name, db_unique_name, sid, ok) ==
    IF gimanaged
    THEN Op("start", "srvctl start database",
            IF db_unique_name # None THEN db_unique_name ELSE db_name, Empty, NoStmt, ok)
    ELSE Op("start", "sqlplus startup",
            IF sid # None THEN sid ELSE db_name, Empty, NoStmt, ok)

\* start_instance with open_mode = 'mount'
start_instance_open(gimanaged, db_name, db_unique_name, sid, instance_name, israc, ok) ==
    start_db(gimanaged, db_name, db_unique_name, sid, ok)

start_instance(gimanaged, db_name, db_unique_name, sid, instance_name, israc, ok) ==
    IF gimanaged
    THEN IF israc
         THEN Op("mount", "srvctl start instance -o mount",
                 IF db_unique_name # None THEN db_unique_name ELSE db_name,
                 instance_name, NoStmt, ok)
         ELSE Op("mount", "srvctl start database -o mount",
                 IF db_unique_name # None THEN db_unique_name ELSE db_name, Empty, NoStmt, ok)
    ELSE Op("mount", "sqlplus startup mount",
            IF sid # None THEN sid ELSE db_name, Empty, NoStmt, ok)

\* remove_db: the -sourceDB argument of dbca -deleteDatabase
sourceDB_as_specified(gimanaged, db_name, db_unique_name, sid, parallel) ==
    IF gimanaged /\ db_unique_name # None THEN db_unique_name
    ELSE IF sid # None /\ parallel = "YES" THEN sid
    ELSE db_name

sourceDB(gimanaged, db_name, db_unique_name, sid, parallel) ==
    IF gimanaged
    THEN IF db_unique_name # None THEN db_unique_name
         ELSE IF sid # None /\ parallel = "YES" THEN db_name
         ELSE IF sid # None /\ parallel = "NO" THEN sid
         ELSE db_name
    ELSE IF sid # None THEN sid ELSE db_name

\* getconn: user is 'sys'; without a password the module fails; a stopped or
\* missing instance refuses the connection, a running one may.
getconn(password, live) ==
    IF password = None THEN {FALSE}
    ELSE IF ~live.exists \/ live.status = "stopped" THEN {FALSE}
    ELSE {TRUE, FALSE}

Connect(ok) == Op("connect", "cx_Oracle.connect", Empty, Empty, NoStmt, ok)
Query(sql, ok) == Op("query", "cursor.execute", Empty, Empty, Stmt(sql, ""), ok)
Execute(stmt, ok) == Op("sql", "cursor.execute", Empty, Empty, stmt, ok)
Sleep == Op("sleep", "time.sleep", Empty, Empty, NoStmt, TRUE)

\* what a lifecycle command that succeeded leaves the instance in: shutdown
\* immediate, startup mount, startup
instance_status(op) ==
    CASE op = "stop" -> "stopped"
      [] op = "mount" -> "mounted"
      [] op = "start" -> "open"

\* the queries of ensure_db_state that can fail: any of the three on an open
\* database, the first (database_properties, a dictionary table) on a
\* database that is not open; 0 stands for none
execute_sql_get_failures(live, queries) ==
    IF live.status = "open" THEN 0..Len(queries) ELSE {1}

\* the key dbca writes to /etc/oratab
oratab_key(db_name, sid) == IF sid # None THEN sid ELSE db_name

\* --------------------------------------------------------------- state
VARIABLES
    env,        \* the host: /etc/oracle/olr.loc, $ORACLE_HOME, the driver import
    req,        \* module.params
    oratab,     \* the lines of /etc/oratab
    crs,        \* what the cluster registry holds about the database
    live,       \* the instance: lifecycle state and properties
    pc,         \* where the running pass is
    loc,        \* the module's globals and the locals of ensure_db_state
    ops,        \* what the running pass has issued so far, in order
    outcome,    \* the result the running pass has returned, if any
    pass,       \* the number of the running pass
    history     \* the outcomes of the passes before

vars == <<env, req, oratab, crs, live, pc, loc, ops, outcome, pass, history>>

PW == <<"p", "w">>

NoOutcome == [result |-> "none", changed |-> FALSE]

\* the globals and locals at the start of main()
FreshLocals ==
    [gimanaged |-> FALSE, oracle_home |-> None, password |-> None, newdb |-> FALSE,
     israc |-> FALSE, exists |-> "unset", answer |-> NoAnswer, obs |-> NoObservation,
     change_restart_sql |-> <<>>, change_db_sql |-> <<>>, batches |-> <<>>, todo |-> <<>>]

\* the reconciled parameters of the request
Declared(r) ==
    [archivelog |-> r.archivelog, force_logging |-> r.force_logging,
     flashback |-> r.flashback, default_tablespace_type |-> r.default_tablespace_type,
     default_tablespace |-> r.default_tablespace,
     default_temp_tablespace |-> r.default_temp_tablespace]

\* Flashback needs archivelog mode: an instance never has flashback on in
\* noarchivelog mode before the module runs.
LiveOk(l) == l.flashback_on = "YES" => l.log_mode = "ARCHIVELOG"

\* Reconciliation inputs: every declared state against every live state, for
\* a single-instance database addressed by name. The declared temporary
\* tablespace may be the name of the instance's permanent one.
InitReconcile ==
    /\ env \in [olr : BOOLEAN, ORACLE_HOME : {None}, cx_oracle_exists : {TRUE}]
    /\ req \in [state : {"present"}, oracle_home : {HOME_B}, db_name : {ORCL},
                sid : {None}, db_unique_name : {None}, sys_password : {PW},
                archivelog : BOOLEAN, force_logging : BOOLEAN, flashback : BOOLEAN,
                default_tablespace_type : {"smallfile", "bigfile"},
                default_tablespace : {"None", "users"},
                default_temp_tablespace : {"None", "temp", "users"}]
    /\ live \in [exists : BOOLEAN, status : {"open"},
                 log_mode : {"ARCHIVELOG", "NOARCHIVELOG"}, force_logging : {"YES", "NO"},
                 flashback_on : {"YES", "NO"}, default_tbs_type : {"smallfile", "bigfile"},
                 default_permanent_tablespace : {"data", "users"},
                 default_temp_tablespace : {"aux", "temp"},
                 parallel : {"NO"}, instance_name : {ORCL1}]
    /\ LiveOk(live)
    /\ crs = IF env.olr /\ live.exists THEN "registered" ELSE "unregistered"
    /\ oratab = IF live.exists THEN <<OratabLine(ORCL, HOME_B)>> ELSE <<>>

\* Identity and configuration inputs: every target state, control mode,
\* identifier, topology and registry content, with at most one configuration
\* defect, against the archivelog/flashback transitions. state=started
\* takes the declared properties too: main() reads them before it branches.
Configs ==
    { <<HOME_B, None, TRUE, PW>>, <<None, HOME_B_SLASH, TRUE, PW>>,
      <<None, None, TRUE, PW>>, <<HOME_B, None, FALSE, PW>>, <<HOME_B, None, TRUE, None>> }

InitIdentity ==
    /\ \E c \in Configs :
        /\ env \in [olr : BOOLEAN, ORACLE_HOME : {c[2]}, cx_oracle_exists : {c[3]}]
        /\ req \in [state : {"present", "absent", "started"}, oracle_home : {c[1]},
                    db_name : {ORCL}, sid : {None, ORCL1}, db_unique_name : {None, ORCLU},
                    sys_password : {c[4]},
                    archivelog : BOOLEAN, force_logging : {FALSE}, flashback : BOOLEAN,
                    default_tablespace_type : {"smallfile"},
                    default_tablespace : {"None"}, default_temp_tablespace : {"None"}]
    /\ req.state = "absent" => ~req.archivelog /\ ~req.flashback
    /\ live \in [exists : BOOLEAN, status : {"open", "mounted", "stopped"},
                 log_mode : {"ARCHIVELOG", "NOARCHIVELOG"}, force_logging : {"NO"},
                 flashback_on : {"YES", "NO"}, default_tbs_type : {"smallfile"},
                 default_permanent_tablespace : {"users"},
                 default_temp_tablespace : {"temp"},
                 parallel : {"YES", "NO"}, instance_name : {ORCL1}]
    /\ LiveOk(live)
    /\ ~live.exists => live.status = "stopped"
    /\ crs \in IF ~env.olr THEN {"unregistered"}
               ELSE IF live.exists THEN {"registered", "differenthome"}
               ELSE {"unregistered"}
    /\ oratab \in IF live.exists
                  THEN { <<OratabLine(oratab_key(ORCL, req.sid), h)>> : h \in {HOME_A, HOME_B} }
                  ELSE { <<>> }

InitPass ==
    /\ pc = "main"
    /\ loc = FreshLocals
    /\ ops = <<>>
    /\ outcome = NoOutcome
    /\ pass = 1
    /\ history = <<>>

Init == (InitReconcile \/ InitIdentity) /\ InitPass

\* ------------------------------------------------------------- actions
\* module.fail_json(...): the process exits, failed, changed=False
fail_json_returns(issued) ==
    /\ pc' = "done"
    /\ outcome' = [result |-> "exit_json", changed |-> FALSE]
    /\ ops' = ops \o issued

fail_json(issued) ==
    /\ pc' = "done"
    /\ outcome' = [result |-> "fail_json", changed |-> FALSE]
    /\ ops' = ops \o issued

\* module.exit_json(changed=...): the process exits in success
exit_json_returns(changed, issued) ==
    /\ pc' = pc
    /\ outcome' = [result |-> "exit_json", changed |-> changed]
    /\ ops' = ops

exit_json(changed, issued) ==
    /\ pc' = "done"
    /\ outcome' = [result |-> "exit_json", changed |-> changed]
    /\ ops' = ops \o issued

goto(label, issued) ==
    /\ pc' = label
    /\ outcome' = outcome
    /\ ops' = ops \o issued

\* main(), up to the connection details: ORACLE_HOME, gimanaged, cx_Oracle
main_setup ==
    /\ pc = "main"
    /\ IF req.oracle_home = None /\ env.ORACLE_HOME = None
       THEN fail_json(<<>>) /\ loc' = loc
       ELSE IF ~env.olr /\ ~env.cx_oracle_exists
       THEN fail_json(<<>>) /\ loc' = [loc EXCEPT !.gimanaged = env.olr]
       ELSE /\ goto("get_version", <<>>)
            /\ loc' = [loc EXCEPT
                         !.oracle_home = IF req.oracle_home # None THEN req.oracle_home
                                         ELSE env.ORACLE_HOME,
                         !.gimanaged = env.olr,
                         !.password = req.sys_password]
    /\ UNCHANGED <<env, req, oratab, crs, live, pass, history>>

\* get_version: sqlplus -V
get_version ==
    /\ pc = "get_version"
    /\ \E rc \in {0, 1} :
         LET issued == <<Op("version", "sqlplus -V", Empty, Empty, NoStmt, rc = 0)>>
         IN  IF rc # 0 THEN fail_json(issued) ELSE goto("check_db_exists", issued)
    /\ UNCHANGED <<env, req, oratab, crs, live, loc, pass, history>>

\* where main() goes with the value of check_db_exists
dispatch_absent_fails(state, exists) ==
    CASE exists = "fail_json" -> "fail_json"
      [] state = "started" -> IF ~Truthy(exists) THEN "fail_json" ELSE "start_db"
      [] state = "present" -> IF ~Truthy(exists) THEN "create_db" ELSE "ensure_db_state"
      [] state = "absent" -> IF Truthy(exists) THEN "remove_db" ELSE "fail_json"

dispatch_started_always_starts(state, exists) ==
    CASE exists = "fail_json" -> "fail_json"
      [] state = "started" -> "start_db"
      [] state = "present" -> IF ~Truthy(exists) THEN "create_db" ELSE "ensure_db_state"
      [] state = "absent" -> IF Truthy(exists) THEN "remove_db" ELSE "exit_json"

dispatch_started_reconciles(state, exists) ==
    CASE exists = "fail_json" -> "fail_json"
      [] state = "started" -> IF ~Truthy(exists) THEN "fail_json" ELSE "ensure_db_state"
      [] state = "present" -> IF ~Truthy(exists) THEN "create_db" ELSE "ensure_db_state"
      [] state = "absent" -> IF Truthy(exists) THEN "remove_db" ELSE "exit_json"

dispatch(state, exists) ==
    CASE exists = "fail_json" -> "fail_json"
      [] state = "started" -> IF ~Truthy(exists) THEN "fail_json" ELSE "start_db"
      [] state = "present" -> IF ~Truthy(exists) THEN "create_db" ELSE "ensure_db_state"
      [] state = "absent" -> IF Truthy(exists) THEN "remove_db" ELSE "exit_json"

\* main(): check_db_exists and the branch on state
main_check_db_exists ==
    /\ pc = "check_db_exists"
    /\ \E answer \in (IF loc.gimanaged THEN SrvctlAnswers(crs) ELSE {SrvctlError}) :
         LET exists == check_db_exists(loc.gimanaged, answer, oratab, loc.oracle_home,
                                       req.db_name, req.sid, req.db_unique_name)
             issued == IF loc.gimanaged
                       THEN <<Op("config", "srvctl config database",
                                 checkdb(req.db_name, req.db_unique_name), Empty, NoStmt,
                                 answer.rc = 0)>>
                       ELSE <<>>
             next == dispatch(req.state, exists)
         IN  /\ loc' = [loc EXCEPT !.exists = exists,
                                   !.answer = IF loc.gimanaged THEN answer ELSE @]
             /\ IF next = "fail_json" THEN fail_json(issued)
                ELSE IF next = "exit_json" THEN exit_json(FALSE, issued)
                ELSE goto(next, issued)
    /\ UNCHANGED <<env, req, oratab, crs, live, pass, history>>

\* create_db: dbca -createDatabase; on success the instance exists, is open
\* and is registered, and main() sets newdb
newdb_after_create_unset == FALSE

newdb_after_create == TRUE

create_db ==
    /\ pc = "create_db"
    /\ \E rc \in (IF live.exists THEN {1} ELSE {0, 1}) :
         LET issued == <<Op("create", "dbca -createDatabase", req.db_name, Empty, NoStmt,
                            rc = 0)>>
         IN  IF rc # 0
             THEN fail_json(issued) /\ UNCHANGED <<live, oratab, crs, loc>>
             ELSE /\ goto("ensure_db_state", issued)
                  /\ live' = [live EXCEPT !.exists = TRUE, !.status = "open"]
                  /\ crs' = IF loc.gimanaged THEN "registered" ELSE crs
                  /\ oratab' = Append(oratab,
                                      OratabLine(oratab_key(req.db_name, req.sid),
                                                 RStripSlash(loc.oracle_home)))
                  /\ loc' = [loc EXCEPT !.newdb = newdb_after_create]
    /\ UNCHANGED <<env, req, pass, history>>

\* the label of the function that applies a batch
BatchLabel(b) ==
    IF b = "norestart" THEN "apply_norestart_changes" ELSE "apply_restart_changes"

\* ensure_db_state after a batch returned: the next batch, or
\* exit_json(changed=True) after the last one
after_batch(remaining, issued) ==
    IF remaining = <<>> THEN exit_json(TRUE, issued)
    ELSE goto(BatchLabel(Head(remaining)), issued)

\* the queries of ensure_db_state, in the order it runs them
ObservationQueries == <<"propsql", "israc_sql", "log_check_sql">>

\* the queries issued when query number k fails (k = 0: none fails)
QueriesIssued(k) ==
    [i \in 1..(IF k = 0 THEN Len(ObservationQueries) ELSE k) |->
        Query(ObservationQueries[i], i # k)]

\* the changed flag ensure_db_state reports when it found nothing to change
changed_when_in_state_always(newdb) == TRUE

changed_when_in_state(newdb) == newdb

\* ensure_db_state up to the choice of the first batch: connect, observe,
\* plan; nothing to change ends the pass
ensure_db_state ==
    /\ pc = "ensure_db_state"
    /\ \E conn \in getconn(loc.password, live),
          k \in execute_sql_get_failures(live, ObservationQueries) :
         IF ~conn
         THEN fail_json(<<Connect(FALSE)>>) /\ loc' = loc
         ELSE IF k # 0
         THEN fail_json(<<Connect(TRUE)>> \o QueriesIssued(k)) /\ loc' = loc
         ELSE LET obs == observe(live)
                  p == Declared(req)
                  db_sql == change_db_sql(p, obs)
                  restart_sql == change_restart_sql(p, obs)
                  issued == <<Connect(TRUE)>> \o QueriesIssued(0)
              IN  /\ loc' = [loc EXCEPT !.obs = obs, !.israc = (obs.parallel # "NO"),
                                        !.change_db_sql = db_sql,
                                        !.change_restart_sql = restart_sql,
                                        !.batches = IF Len(db_sql) > 0 \/ Len(restart_sql) > 0
                                                    THEN batches(p, obs) ELSE <<>>]
                  /\ IF Len(db_sql) > 0 \/ Len(restart_sql) > 0
                     THEN goto(BatchLabel(Head(batches(p, obs))), issued)
                     ELSE exit_json(changed_when_in_state(loc.newdb), issued)
    /\ UNCHANGED <<env, req, oratab, crs, live, pass, history>>

\* apply_norestart_changes: a new connection for the batch
apply_norestart_changes ==
    /\ pc = "apply_norestart_changes"
    /\ \E conn \in getconn(loc.password, live) :
         IF ~conn
         THEN fail_json(<<Connect(FALSE)>>) /\ loc' = loc
         ELSE /\ goto("norestart_execute_sql", <<Connect(TRUE)>>)
              /\ loc' = [loc EXCEPT !.todo = loc.change_db_sql]
    /\ UNCHANGED <<env, req, oratab, crs, live, pass, history>>

\* apply_norestart_changes: one turn of "for sql in change_db_sql"
norestart_execute_sql ==
    /\ pc = "norestart_execute_sql"
    /\ \E ok \in BOOLEAN :
         LET sql == Head(loc.todo)
             rest == Tail(loc.todo)
         IN  IF ~ok
             THEN fail_json(<<Execute(sql, FALSE)>>) /\ UNCHANGED <<live, loc>>
             ELSE /\ live' = apply_sql(live, sql)
                  /\ loc' = [loc EXCEPT !.todo = rest,
                                        !.batches = IF rest = <<>> THEN Tail(@) ELSE @]
                  /\ IF rest # <<>>
                     THEN goto("norestart_execute_sql", <<Execute(sql, TRUE)>>)
                     ELSE after_batch(Tail(loc.batches), <<Execute(sql, TRUE)>>)
    /\ UNCHANGED <<env, req, oratab, crs, pass, history>>

\* apply_restart_changes: the first stop_db
apply_restart_changes ==
    /\ pc = "apply_restart_changes"
    /\ \E ok \in BOOLEAN :
         LET issued == <<stop_db(loc.gimanaged, req.db_name, req.db_unique_name, req.sid, ok)>>
         IN  IF ~ok
             THEN fail_json(issued) /\ live' = live
             ELSE goto("restart_start_instance", issued)
                  /\ live' = [live EXCEPT !.status = instance_status(issued[1].op)]
    /\ UNCHANGED <<env, req, oratab, crs, loc, pass, history>>

\* apply_restart_changes: start_instance(..., 'mount', ...)
restart_start_instance ==
    /\ pc = "restart_start_instance"
    /\ \E ok \in BOOLEAN :
         LET issued == <<start_instance(loc.gimanaged, req.db_name, req.db_unique_name,
                                        req.sid, loc.obs.instance_name, loc.israc, ok)>>
         IN  IF ~ok
             THEN fail_json(issued) /\ live' = live
             ELSE goto("restart_getconn", issued)
                  /\ live' = [live EXCEPT !.status = instance_status(issued[1].op)]
    /\ UNCHANGED <<env, req, oratab, crs, loc, pass, history>>

\* apply_restart_changes after the mount: time.sleep(10), "To allow the DB to
\* register with the listener", then getconn
getconn_then_sleep(conn) == <<Connect(conn), Sleep>>

sleep_then_getconn(conn) == <<Sleep, Connect(conn)>>

\* apply_restart_changes: the settling delay and the connection of the batch
restart_getconn ==
    /\ pc = "restart_getconn"
    /\ \E conn \in getconn(loc.password, live) :
         IF ~conn
         THEN fail_json(sleep_then_getconn(FALSE)) /\ loc' = loc
         ELSE /\ goto("restart_execute_sql", sleep_then_getconn(TRUE))
              /\ loc' = [loc EXCEPT !.todo = loc.change_restart_sql]
    /\ UNCHANGED <<env, req, oratab, crs, live, pass, history>>

\* apply_restart_changes: execute_sql at the top of "for sql in change_restart_sql"
restart_execute_sql ==
    /\ pc = "restart_execute_sql"
    /\ \E ok \in BOOLEAN :
         LET sql == Head(loc.todo)
         IN  IF ~ok
             THEN fail_json(<<Execute(sql, FALSE)>>) /\ live' = live
             ELSE goto("restart_stop_db", <<Execute(sql, TRUE)>>)
                  /\ live' = apply_sql(live, sql)
    /\ UNCHANGED <<env, req, oratab, crs, loc, pass, history>>

\* apply_restart_changes: the stop_db inside the loop
restart_stop_db ==
    /\ pc = "restart_stop_db"
    /\ \E ok \in BOOLEAN :
         LET issued == <<stop_db(loc.gimanaged, req.db_name, req.db_unique_name, req.sid, ok)>>
         IN  IF ~ok
             THEN fail_json(issued) /\ live' = live
             ELSE goto("restart_start_db", issued)
                  /\ live' = [live EXCEPT !.status = instance_status(issued[1].op)]
    /\ UNCHANGED <<env, req, oratab, crs, loc, pass, history>>

\* apply_restart_changes: the start_db inside the loop, and the loop's end
restart_start_db ==
    /\ pc = "restart_start_db"
    /\ \E ok \in BOOLEAN :
         LET issued == <<start_db(loc.gimanaged, req.db_name, req.db_unique_name, req.sid, ok)>>
             rest == Tail(loc.todo)
         IN  IF ~ok
             THEN fail_json(issued) /\ UNCHANGED <<live, loc>>
             ELSE /\ live' = [live EXCEPT !.status = instance_status(issued[1].op)]
                  /\ loc' = [loc EXCEPT !.todo = rest,
                                        !.batches = IF rest = <<>> THEN Tail(@) ELSE @]
                  /\ IF rest # <<>>
                     THEN goto("restart_execute_sql", issued)
                     ELSE after_batch(Tail(loc.batches), issued)
    /\ UNCHANGED <<env, req, oratab, crs, pass, history>>

\* remove_db: connect, read v$instance, dbca -deleteDatabase; on success the
\* instance and its registry entries are gone and the pass reports changed=True
remove_db ==
    /\ pc = "remove_db"
    /\ \E conn \in getconn(loc.password, live), query_ok \in BOOLEAN, rc \in {0, 1} :
         LET source == sourceDB(loc.gimanaged, req.db_name, req.db_unique_name, req.sid,
                                live.parallel)
             delete == Op("remove", "dbca -deleteDatabase", source, Empty, NoStmt, rc = 0)
             gone(line) == ~StartsWith(line, oratab_key(req.db_name, req.sid) \o <<":">>)
         IN  IF ~conn
             THEN /\ query_ok /\ rc = 0
                  /\ fail_json(<<Connect(FALSE)>>)
                  /\ UNCHANGED <<live, oratab, crs>>
             ELSE IF ~query_ok
             THEN /\ rc = 0
                  /\ fail_json(<<Connect(TRUE), Query("israc_sql", FALSE)>>)
                  /\ UNCHANGED <<live, oratab, crs>>
             ELSE IF rc # 0
             THEN /\ fail_json(<<Connect(TRUE), Query("israc_sql", TRUE), delete>>)
                  /\ UNCHANGED <<live, oratab, crs>>
             ELSE /\ exit_json(TRUE, <<Connect(TRUE), Query("israc_sql", TRUE), delete>>)
                  /\ live' = [live EXCEPT !.exists = FALSE, !.status = "stopped"]
                  /\ oratab' = SelectSeq(oratab, gone)
                  /\ crs' = "unregistered"
    /\ UNCHANGED <<env, req, loc, pass, history>>

\* main(), state=started: start_db, then exit_json(changed=True)
main_start_db ==
    /\ pc = "start_db"
    /\ \E ok \in BOOLEAN :
         LET issued == <<start_db(loc.gimanaged, req.db_name, req.db_unique_name, req.sid, ok)>>
         IN  IF ~ok
             THEN fail_json(issued) /\ live' = live
             ELSE /\ exit_json(TRUE, issued)
                  /\ live' = [live EXCEPT !.status = instance_status(issued[1].op)]
    /\ UNCHANGED <<env, req, oratab, crs, loc, pass, history>>

\* The task runs again with the same parameters after a pass that succeeded
\* (a failed task stops the play); nothing else touches the instance.
next_pass ==
    /\ pc = "done"
    /\ outcome.result = "exit_json"
    /\ pass < MaxPasses
    /\ pass' = pass + 1
    /\ history' = Append(history, outcome)
    /\ pc' = "main"
    /\ loc' = FreshLocals
    /\ ops' = <<>>
    /\ outcome' = NoOutcome
    /\ UNCHANGED <<env, req, oratab, crs, live>>

Next ==
    \/ main_setup
    \/ get_version
    \/ main_check_db_exists
    \/ create_db
    \/ ensure_db_state
    \/ apply_norestart_changes
    \/ norestart_execute_sql
    \/ apply_restart_changes
    \/ restart_start_instance
    \/ restart_getconn
    \/ restart_execute_sql
    \/ restart_stop_db
    \/ restart_start_db
    \/ remove_db
    \/ main_start_db
    \/ next_pass

Spec == Init /\ [][Next]_vars

\* The module is one sequential process: as long as every external call
\* returns, the pass takes its next step. Every target state, control mode
\* and configuration, for a single-instance database without a unique name.
InitFair ==
    /\ InitIdentity /\ InitPass
    /\ req.db_unique_name = None /\ live.parallel = "NO"

SpecFair == InitFair /\ [][Next]_vars /\ WF_vars(Next)

\* ------------------------------------------------ locator specification
\* The standalone locator over every /etc/oratab of at most MaxOratab lines:
\* the requested database in either home, a database whose name ends with
\* the requested name, the requested sid, an unrelated database, a comment.
OratabLines ==
    { OratabLine(k, h) : k \in {ORCL, MYORCL, ORCL1, XDB}, h \in {HOME_A, HOME_B} }
        \cup { CommentLine(ORCL, HOME_A) }

Oratabs == UNION { [1..n -> OratabLines] : n \in 0..MaxOratab }

InitLocator ==
    /\ env = [olr |-> FALSE, ORACLE_HOME |-> None, cx_oracle_exists |-> TRUE]
    /\ req \in [state : {"present", "absent", "started"},
                oracle_home : {HOME_B, HOME_B_SLASH},
                db_name : {ORCL}, sid : {None, ORCL1}, db_unique_name : {None},
                sys_password : {PW},
                archivelog : {FALSE}, force_logging : {FALSE}, flashback : {FALSE},
                default_tablespace_type : {"smallfile"},
                default_tablespace : {"None"}, default_temp_tablespace : {"None"}]
    /\ oratab \in Oratabs
    /\ crs = "unregistered"
    /\ live = [exists |-> oratab # <<>>, status |-> "open", log_mode |-> "NOARCHIVELOG",
               force_logging |-> "NO", flashback_on |-> "NO",
               default_tbs_type |-> "smallfile", default_permanent_tablespace |-> "users",
               default_temp_tablespace |-> "temp", parallel |-> "NO",
               instance_name |-> ORCL1]
    /\ InitPass

\* main() up to the value of check_db_exists
NextLocator == main_setup \/ get_version \/ main_check_db_exists

SpecLocator == InitLocator /\ [][NextLocator]_vars

\* ------------------------------------------------ planner specification
\* ensure_db_state up to its plan, for a found single-instance database in
\* standalone mode: every declared state against every live state, with a
\* temporary tablespace whose name sorts after the other two values.
InitPlanner ==
    /\ env = [olr |-> FALSE, ORACLE_HOME |-> None, cx_oracle_exists |-> TRUE]
    /\ req \in [state : {"present"}, oracle_home : {HOME_B}, db_name : {ORCL},
                sid : {None}, db_unique_name : {None}, sys_password : {PW},
                archivelog : BOOLEAN, force_logging : BOOLEAN, flashback : BOOLEAN,
                default_tablespace_type : {"smallfile", "bigfile"},
                default_tablespace : {"None", "users"},
                default_temp_tablespace : {"None", "temp", "work"}]
    /\ live \in [exists : {TRUE}, status : {"open"},
                 log_mode : {"ARCHIVELOG", "NOARCHIVELOG"}, force_logging : {"YES", "NO"},
                 flashback_on : {"YES", "NO"}, default_tbs_type : {"smallfile", "bigfile"},
                 default_permanent_tablespace : {"data", "users"},
                 default_temp_tablespace : {"aux", "temp", "work"},
                 parallel : {"NO"}, instance_name : {ORCL1}]
    /\ LiveOk(live)
    /\ crs = "unregistered"
    /\ oratab = <<OratabLine(ORCL, HOME_B)>>
    /\ InitPass

\* main() up to the plan of ensure_db_state
NextPlanner == main_setup \/ get_version \/ main_check_db_exists \/ ensure_db_state

SpecPlanner == InitPlanner /\ [][NextPlanner]_vars

\* ------------------------------------------------------ oracle_datapatch
\* oracle_datapatch.check_db_exists, cluster-managed branch: every non-zero
\* exit is False; exit 0 without the "Database name" line falls off the end
dp_check_db_exists_gi(answer) ==
    IF answer.rc # 0 THEN "False"
    ELSE IF "Database name: db_name" \in answer.stdout THEN "True"
    ELSE "None"

\* '%s:' % sid, where sid may be Python's None
dp_sid_colon(sid) == (IF sid = None THEN <<"N", "o", "n", "e">> ELSE sid) \o <<":">>

\* the lines of /etc/oratab oracle_datapatch keeps in existingdbs
dp_existingdbs(oratab_lines, db_name, sid) ==
    LET keep(line) ==
            /\ ~(StartsWith(line, <<"#">>) \/ StartsWith(line, <<" ">>))
            /\ \/ SearchAtStart(line, db_name \o <<":">>)
               \/ (sid # None /\ SearchAtStart(line, sid \o <<":">>))
    IN  SelectSeq(oratab_lines, keep)

\* the "for dbs in existingdbs" loop of oracle_datapatch (sid != '' holds
\* for None and for every given sid)
RECURSIVE dp_scan_existingdbs(_, _, _, _)
dp_scan_existingdbs(dbs_list, oracle_home, db_name, sid) ==
    IF dbs_list = <<>> THEN "None"
    ELSE LET dbs == Head(dbs_list)
             same_home == SplitField1(dbs) = RStripSlash(oracle_home)
         IN  IF Contains(dbs, db_name \o <<":">>) \/ Contains(dbs, dp_sid_colon(sid))
             THEN IF ~same_home THEN "fail_json" ELSE "True"
             ELSE IF same_home THEN "True"
             ELSE dp_scan_existingdbs(Tail(dbs_list), oracle_home, db_name, sid)

\* oracle_datapatch.check_db_exists, standalone branch
dp_check_db_exists_oratab(oratab_lines, oracle_home, db_name, sid) ==
    LET found == dp_existingdbs(oratab_lines, db_name, sid)
    IN  IF found = <<>> THEN "False"
        ELSE dp_scan_existingdbs(found, oracle_home, db_name, sid)

dp_check_db_exists(gimanaged, answer, oratab_lines, oracle_home, db_name, sid) ==
    IF gimanaged THEN dp_check_db_exists_gi(answer)
    ELSE dp_check_db_exists_oratab(oratab_lines, oracle_home, db_name, sid)

\* the globals of oracle_datapatch at the start of main()
DpFreshLocals ==
    [gimanaged |-> FALSE, oracle_home |-> None, major_version |-> "",
     exists |-> "unset", answer |-> NoAnswer]

\* major_version > '11.2'
Versions == {"11.2", "12.1"}
AfterEleven(major_version) == major_version = "12.1"

\* oracle_datapatch.main(), up to the connection details
dp_main_setup ==
    /\ pc = "main"
    /\ IF req.oracle_home = None /\ env.ORACLE_HOME = None
       THEN fail_json(<<>>) /\ loc' = loc
       ELSE IF ~env.cx_oracle_exists
       THEN fail_json(<<>>) /\ loc' = [loc EXCEPT !.gimanaged = env.olr]
       ELSE /\ goto("dp_get_version", <<>>)
            /\ loc' = [loc EXCEPT
                         !.oracle_home = IF req.oracle_home # None THEN req.oracle_home
                                         ELSE env.ORACLE_HOME,
                         !.gimanaged = env.olr]
    /\ UNCHANGED <<env, req, oratab, crs, live, pass, history>>

\* oracle_datapatch.get_version: sqlplus -V
dp_get_version ==
    /\ pc = "dp_get_version"
    /\ \E rc \in {0, 1}, version \in Versions :
         LET issued == <<Op("version", "sqlplus -V", Empty, Empty, NoStmt, rc = 0)>>
         IN  IF rc # 0
             THEN version = "11.2" /\ fail_json(issued) /\ loc' = loc
             ELSE /\ goto("dp_check_db_exists", issued)
                  /\ loc' = [loc EXCEPT !.major_version = version]
    /\ UNCHANGED <<env, req, oratab, crs, live, pass, history>>

\* what oracle_datapatch.main() does with the value of check_db_exists
dp_dispatch_always_runs(exists, fail_on_db_not_exist) ==
    CASE exists = "fail_json" -> "fail_json"
      [] Truthy(exists) -> "run_datapatch"
      [] OTHER -> IF fail_on_db_not_exist THEN "run_datapatch" ELSE "exit_json"

dp_dispatch(exists, fail_on_db_not_exist) ==
    CASE exists = "fail_json" -> "fail_json"
      [] Truthy(exists) -> "run_datapatch"
      [] OTHER -> IF fail_on_db_not_exist THEN "fail_json" ELSE "exit_json"

\* oracle_datapatch.main(): check_db_exists and the branch on its value
dp_main_check_db_exists ==
    /\ pc = "dp_check_db_exists"
    /\ \E answer \in (IF loc.gimanaged THEN SrvctlAnswers(crs) ELSE {SrvctlError}) :
         LET exists == dp_check_db_exists(loc.gimanaged, answer, oratab, loc.oracle_home,
                                          req.db_name, req.sid)
             issued == IF loc.gimanaged
                       THEN <<Op("config", "srvctl config database",
                                 checkdb(req.db_name, req.db_unique_name), Empty, NoStmt,
                                 answer.rc = 0)>>
                       ELSE <<>>
             next == dp_dispatch(exists, req.fail_on_db_not_exist)
         IN  /\ loc' = [loc EXCEPT !.exists = exists,
                                   !.answer = IF loc.gimanaged THEN answer ELSE @]
             /\ IF next = "fail_json" THEN fail_json(issued)
                ELSE IF next = "exit_json" THEN exit_json(FALSE, issued)
                ELSE goto(next, issued)
    /\ UNCHANGED <<env, req, oratab, crs, live, pass, history>>

\* run_datapatch: datapatch -verbose after 11.2 (ORACLE_SID set to the sid,
\* or to the name), catbundle.sql through sqlplus up to 11.2
run_datapatch ==
    /\ pc = "run_datapatch"
    /\ \E rc \in {0, 1}, complete \in BOOLEAN :
         IF AfterEleven(loc.major_version)
         THEN LET issued == <<Op("datapatch", "datapatch -verbose",
                                 IF req.sid # None THEN req.sid ELSE req.db_name,
                                 Empty, NoStmt, rc = 0)>>
              IN  IF rc # 0 THEN complete /\ fail_json(issued)
                  ELSE exit_json(complete, issued)
         ELSE LET issued == <<Op("datapatch", "sqlplus catbundle.sql psu apply",
                                 Empty, Empty, NoStmt, rc = 0)>>
              IN  /\ complete
                  /\ IF rc # 0 THEN fail_json(issued) ELSE exit_json(TRUE, issued)
    /\ UNCHANGED <<env, req, oratab, crs, live, loc, pass, history>>

\* The instance oracle_datapatch runs against; the module does not read it.
DpLive ==
    [exists |-> TRUE, status |-> "open", log_mode |-> "NOARCHIVELOG",
     force_logging |-> "NO", flashback_on |-> "NO", default_tbs_type |-> "smallfile",
     default_permanent_tablespace |-> "users", default_temp_tablespace |-> "temp",
     parallel |-> "NO", instance_name |-> ORCL1]

\* Standalone inputs: every /etc/oratab of at most MaxOratab lines.
InitDpStandalone ==
    /\ env = [olr |-> FALSE, ORACLE_HOME |-> None, cx_oracle_exists |-> TRUE]
    /\ req \in [oracle_home : {HOME_B, HOME_B_SLASH}, db_name : {ORCL},
                sid : {None, ORCL1}, db_unique_name : {None},
                fail_on_db_not_exist : BOOLEAN, output : {"short"}]
    /\ oratab \in Oratabs
    /\ crs = "unregistered"

\* Cluster-managed and configuration inputs: every content of the registry.
InitDpCluster ==
    /\ env \in [olr : BOOLEAN, ORACLE_HOME : {None, HOME_B}, cx_oracle_exists : BOOLEAN]
    /\ req \in [oracle_home : {None, HOME_B}, db_name : {ORCL},
                sid : {None, ORCL1}, db_unique_name : {None, ORCLU},
                fail_on_db_not_exist : BOOLEAN, output : {"short", "verbose"}]
    /\ oratab \in { <<>>, <<OratabLine(ORCL, HOME_B)>> }
    /\ crs \in IF env.olr
               THEN {"registered", "registered_unnamed", "differenthome", "unregistered"}
               ELSE {"unregistered"}

InitDatapatch ==
    /\ InitDpStandalone \/ InitDpCluster
    /\ live = DpLive
    /\ pc = "main"
    /\ loc = DpFreshLocals
    /\ ops = <<>>
    /\ outcome = NoOutcome
    /\ pass = 1
    /\ history = <<>>

NextDatapatch ==
    \/ dp_main_setup
    \/ dp_get_version
    \/ dp_main_check_db_exists
    \/ run_datapatch

SpecDatapatch == InitDatapatch /\ [][NextDatapatch]_vars

\* -------------------------------------------------------------- claims
Done == pc = "done"
Succeeded == Done /\ outcome.result = "exit_json"
Failed == Done /\ outcome.result = "fail_json"
Observed == loc.obs # NoObservation
NotFound == loc.exists \in {"False", "None"}

\* the operations that change the instance or its registration
ChangeOps == {"create", "remove", "stop", "mount", "start", "sql"}
IssuedKinds == { ops[i].op : i \in DOMAIN ops }
ExecutedOk(stmt) == \E i \in DOMAIN ops : ops[i] = Execute(stmt, TRUE)

\* the lifecycle operations and statements of the pass, in order, as
\* <<operation, statement>> pairs
IsChange(o) == o.op \in {"stop", "mount", "start", "sql"}
Changes == SelectSeq(ops, IsChange)
Shape(seq) == [i \in DOMAIN seq |-> <<seq[i].op, seq[i].stmt.sql>>]
IsPrefix(a, b) == Len(a) <= Len(b) /\ SubSeq(b, 1, Len(a)) = a

\* a whole successful restart cycle around statement sql lies before position
\* i of the log: the lifecycle operations and statements sql issued before i
\* are exactly stop, mount, sql, stop, start, and each succeeded
RestartCycleBefore(i, sql) ==
    LET inCycle(o) == o.op \in {"stop", "mount", "start"} \/ (o.op = "sql" /\ o.stmt = sql)
        cycle == SelectSeq(SubSeq(ops, 1, i - 1), inCycle)
    IN  /\ Shape(cycle) = <<<<"stop", "">>, <<"mount", "">>, <<"sql", sql.sql>>,
                            <<"stop", "">>, <<"start", "">>>>
        /\ \A k \in DOMAIN cycle : cycle[k].ok

\* C1: a pass for state=present that follows a successful pass with the
\* same parameters, with nothing else touching the instance, reports
\* changed=false.
C1_SecondPassUnchanged ==
    (pass >= 2 /\ Done /\ req.state = "present") => ~outcome.changed

\* C2: when the instance is observed in archivelog mode with flashback on and
\* archivelog=false and flashback=false are declared, "flashback off" and every
\* other statement of the no-restart batch have been executed before the
\* first stop of the restart cycle is issued.
C2_Case ==
    /\ req.state = "present" /\ Observed
    /\ loc.obs.log_mode = "ARCHIVELOG" /\ loc.obs.flashback_on = "YES"
    /\ ~req.archivelog /\ ~req.flashback

C2_FlashbackOffBeforeStop ==
    C2_Case =>
        /\ pc = "apply_restart_changes" =>
              ExecutedOk(Stmt("alter database flashback off", ""))
        /\ \A i \in DOMAIN ops : ops[i].op = "stop" =>
              /\ \E j \in 1..(i - 1) :
                    ops[j] = Execute(Stmt("alter database flashback off", ""), TRUE)
              /\ \A k \in DOMAIN loc.change_db_sql :
                    \E j \in 1..(i - 1) : ops[j] = Execute(loc.change_db_sql[k], TRUE)

C2_Witness ==
    /\ C2_Case
    /\ \E i, j \in DOMAIN ops :
          /\ j < i /\ ops[i].op = "stop" /\ ops[i].ok
          /\ ops[j] = Execute(Stmt("alter database flashback off", ""), TRUE)

\* C3: when archivelog and flashback are both observed off and both declared
\* on, "flashback on" is issued only after the whole restart cycle (stop,
\* mount, alter database archivelog, stop, start) succeeded; and whenever the
\* archive-log mode diverges outside the flashback-first case, every
\* statement of the no-restart batch is issued only after the whole cycle.
C3_FlashbackFirstCase ==
    /\ loc.obs.log_mode = "ARCHIVELOG" /\ loc.obs.flashback_on = "YES"
    /\ ~req.archivelog /\ ~req.flashback

C3_Case ==
    /\ req.state = "present" /\ Observed
    /\ ~C3_FlashbackFirstCase
    /\ loc.obs.log_mode # (IF req.archivelog THEN "ARCHIVELOG" ELSE "NOARCHIVELOG")

C3_RestartBeforeImmediate ==
    C3_Case =>
        \A i \in DOMAIN ops :
            (ops[i].op = "sql"
               /\ ops[i].stmt.sql \notin {"alter database archivelog",
                                          "alter database noarchivelog"})
            => RestartCycleBefore(i, IF req.archivelog
                                     THEN Stmt("alter database archivelog", "")
                                     ELSE Stmt("alter database noarchivelog", ""))

C3_Witness ==
    /\ C3_Case
    /\ loc.obs.log_mode = "NOARCHIVELOG" /\ loc.obs.flashback_on = "NO"
    /\ req.archivelog /\ req.flashback
    /\ \E i \in DOMAIN ops :
          /\ ops[i] = Execute(Stmt("alter database flashback on", ""), TRUE)
          /\ RestartCycleBefore(i, Stmt("alter database archivelog", ""))

\* C4: in standalone mode, an oratab entry whose key is the requested name or
\* the requested sid and whose home differs from the requested one makes
\* check_db_exists end the pass in failure, whatever else the table holds.
C4_IsEntry(line) == ~(StartsWith(line, <<"#">>) \/ StartsWith(line, <<" ">>))

C4_DivergentEntry ==
    \E i \in DOMAIN oratab :
        /\ C4_IsEntry(oratab[i])
        /\ SplitColon(oratab[i])[1] \in ({req.db_name, req.sid} \ {None})
        /\ SplitColon(oratab[i])[2] # RStripSlash(loc.oracle_home)

C4_DivergentAlwaysFails ==
    (~loc.gimanaged /\ loc.exists # "unset" /\ C4_DivergentEntry)
        => (loc.exists = "fail_json" /\ Failed)

\* C5: in cluster-managed mode, when srvctl answers that the database exists
\* in a different home, the pass ends in failure at the locator and has issued
\* no create, remove, stop, start or statement; the answer is not taken as
\* "not found".
C5_DifferentHomeAnswer ==
    loc.gimanaged /\ loc.answer.rc # 0 /\ "PRCD-1229" \in loc.answer.stdout

C5_DifferentHomeIsFatal ==
    C5_DifferentHomeAnswer =>
        /\ loc.exists = "fail_json"
        /\ Failed
        /\ IssuedKinds \cap ChangeOps = {}

C5_Witness == C5_DifferentHomeAnswer /\ Done /\ req.state = "present"

\* C6: for a found instance and state=present, when every declared property
\* equals the one the pass observed, both lists are empty, nothing is stopped,
\* started or executed and the pass succeeds with changed=false; when one
\* differs, a list is not empty and a pass that succeeds has executed every
\* planned statement and reports changed=true.
C6_Case == req.state = "present" /\ loc.exists = "True" /\ Observed

C6_DeclaredEqualsObserved ==
    /\ loc.obs.log_mode = (IF req.archivelog THEN "ARCHIVELOG" ELSE "NOARCHIVELOG")
    /\ loc.obs.force_logging = (IF req.force_logging THEN "YES" ELSE "NO")
    /\ loc.obs.flashback_on = (IF req.flashback THEN "YES" ELSE "NO")
    /\ loc.obs.def_tbs_type = req.default_tablespace_type
    /\ req.default_tablespace # "None" => loc.obs.def_tbs = req.default_tablespace
    /\ req.default_temp_tablespace # "None" => loc.obs.def_temp_tbs = req.default_temp_tablespace

C6_ChangedIffPlanned ==
    C6_Case =>
        IF C6_DeclaredEqualsObserved
        THEN /\ loc.change_db_sql = <<>> /\ loc.change_restart_sql = <<>>
             /\ Succeeded /\ ~outcome.changed
             /\ IssuedKinds \cap ChangeOps = {}
        ELSE /\ Len(loc.change_db_sql) + Len(loc.change_restart_sql) > 0
             /\ Succeeded =>
                   /\ outcome.changed
                   /\ \A k \in DOMAIN loc.change_db_sql : ExecutedOk(loc.change_db_sql[k])
                   /\ \A k \in DOMAIN loc.change_restart_sql :
                         ExecutedOk(loc.change_restart_sql[k])

C6_Witness == C6_Case /\ C6_DeclaredEqualsObserved /\ Succeeded /\ ~outcome.changed

C6_ReachesChanged ==
    C6_Case /\ ~C6_DeclaredEqualsObserved /\ Succeeded /\ outcome.changed

\* C7: state=absent and an instance the locator does not find: the pass
\* succeeds with changed=false, runs no removal and opens no connection.
C7_Case == req.state = "absent" /\ NotFound

C7_AbsentAlreadyAbsent ==
    C7_Case =>
        /\ Succeeded /\ ~outcome.changed
        /\ IssuedKinds \cap {"remove", "connect", "query"} = {}

C7_Witness == C7_Case /\ Done

\* C8: for a found instance observed with archivelog and flashback off and a
\* declared state that differs from the observed one by archivelog=true
\* alone, the restart list holds one statement, the other list none, and the
\* lifecycle operations and statements of the pass are, in this order, stop,
\* mount, alter database archivelog, stop, start: each issued only after the
\* one before succeeded, and all five when the pass succeeds.
C8_Case ==
    /\ req.state = "present" /\ loc.exists = "True" /\ Observed
    /\ loc.obs.log_mode = "NOARCHIVELOG" /\ loc.obs.flashback_on = "NO"
    /\ req.archivelog /\ ~req.flashback
    /\ loc.obs.force_logging = (IF req.force_logging THEN "YES" ELSE "NO")
    /\ loc.obs.def_tbs_type = req.default_tablespace_type
    /\ req.default_tablespace # "None" => loc.obs.def_tbs = req.default_tablespace
    /\ req.default_temp_tablespace # "None" => loc.obs.def_temp_tbs = req.default_temp_tablespace

C8_Cycle ==
    <<<<"stop", "">>, <<"mount", "">>, <<"sql", "alter database archivelog">>,
      <<"stop", "">>, <<"start", "">>>>

C8_RestartCycleSequence ==
    C8_Case =>
        /\ Len(loc.change_restart_sql) = 1
        /\ loc.change_db_sql = <<>>
        /\ IsPrefix(Shape(Changes), C8_Cycle)
        /\ \A i \in DOMAIN Changes : i < Len(Changes) => Changes[i].ok
        /\ Succeeded => (Len(Changes) = Len(C8_Cycle) /\ \A i \in DOMAIN Changes : Changes[i].ok)
        /\ (Done /\ Len(Changes) < Len(C8_Cycle)) => Failed

C8_Witness == C8_Case /\ Succeeded /\ Shape(Changes) = C8_Cycle

\* C9: state=present and an instance the locator does not find: dbca creates
\* it before anything else is done to it, the properties of the new instance
\* are then observed and reconciled, and a pass that succeeds reports
\* changed=true, also when there was nothing to reconcile.
C9_Case == req.state = "present" /\ NotFound

C9_CreatedThenReconciled ==
    C9_Case =>
        /\ \A i \in DOMAIN ops :
              ops[i].op \in {"connect", "query", "sql", "stop", "mount", "start"}
                 => \E j \in 1..(i - 1) : ops[j].op = "create" /\ ops[j].ok
        /\ pc \notin {"create_db", "done"} => "create" \in IssuedKinds
        /\ Succeeded =>
              /\ outcome.changed
              /\ Observed
              /\ \A k \in DOMAIN loc.change_db_sql : ExecutedOk(loc.change_db_sql[k])
              /\ \A k \in DOMAIN loc.change_restart_sql : ExecutedOk(loc.change_restart_sql[k])

C9_Witness ==
    /\ C9_Case /\ Succeeded /\ outcome.changed
    /\ loc.change_db_sql = <<>> /\ loc.change_restart_sql = <<>>

\* C10 (as stated): the -sourceDB of the removal is the unique name under
\* cluster-managed mode when given, otherwise the sid when given and the
\* instance is RAC, otherwise the name; a removal that succeeds reports
\* changed=true.
C10_Removals == { i \in DOMAIN ops : ops[i].op = "remove" }

C10_SidUnderRac ==
    \A i \in C10_Removals :
        /\ ops[i].target =
              (IF loc.gimanaged /\ req.db_unique_name # None THEN req.db_unique_name
               ELSE IF req.sid # None /\ live.parallel = "YES" THEN req.sid
               ELSE req.db_name)
        /\ ops[i].ok => (Succeeded /\ outcome.changed)

\* C10 (amended): the -sourceDB of the removal is the unique name under
\* cluster-managed mode when given; otherwise the sid when given, unless the
\* mode is cluster-managed and the instance is RAC; otherwise the name; a
\* removal that succeeds reports changed=true.
C10_SidUnlessClusterRac ==
    \A i \in C10_Removals :
        /\ ops[i].target =
              (IF loc.gimanaged /\ req.db_unique_name # None THEN req.db_unique_name
               ELSE IF req.sid # None /\ ~(loc.gimanaged /\ live.parallel = "YES")
                    THEN req.sid
               ELSE req.db_name)
        /\ ops[i].ok => (Succeeded /\ outcome.changed)

C10_Witness ==
    /\ req.state = "absent" /\ loc.exists = "True" /\ Succeeded
    /\ loc.gimanaged /\ req.db_unique_name = None /\ req.sid # None /\ live.parallel = "YES"
    /\ \E i \in C10_Removals : ops[i].ok /\ ops[i].target = req.db_name

\* C11: a stop, start-to-mount or start that fails is the last thing the pass
\* issues and the pass ends in failure there: no retry, no further statement,
\* no further stop or start. When the mount fails after the stop of the
\* restart cycle succeeded, no start is issued and the instance stays stopped.
C11_Lifecycle == {"stop", "mount", "start"}

C11_FailedMountLast ==
    /\ Len(ops) >= 2
    /\ ops[Len(ops)].op = "mount" /\ ~ops[Len(ops)].ok

C11_LifecycleFailureIsFatal ==
    /\ \A i \in DOMAIN ops :
          (ops[i].op \in C11_Lifecycle /\ ~ops[i].ok) => (i = Len(ops) /\ Failed)
    /\ C11_FailedMountLast =>
          /\ ops[Len(ops) - 1].op = "stop" /\ ops[Len(ops) - 1].ok
          /\ "start" \notin IssuedKinds
          /\ live.status = "stopped"

C11_Witness == C11_FailedMountLast /\ Failed /\ live.status = "stopped"

\* C12: within a pass the properties are read again after each executed
\* batch: a query lies between the statements of the restart batch and those
\* of the no-restart batch, and a pass that executed a statement has queried
\* the instance after its last stop, start or statement, before it reports.
IsRestartStmt(o) ==
    o.stmt.sql \in {"alter database archivelog", "alter database noarchivelog"}

C12_ReobservedAfterBatch ==
    /\ \A i, j \in DOMAIN ops :
          (/\ i < j /\ ops[i].op = "sql" /\ ops[j].op = "sql"
           /\ IsRestartStmt(ops[i]) # IsRestartStmt(ops[j]))
          => \E k \in (i + 1)..(j - 1) : ops[k].op = "query"
    /\ (Succeeded /\ "sql" \in IssuedKinds) =>
          \E i \in DOMAIN ops :
              /\ ops[i].op = "query"
              /\ \A j \in (i + 1)..Len(ops) : ~IsChange(ops[j])

\* C13: a pass opens at most one administrative connection (getconn is
\* called at most once), which serves the observation and every statement.
C13_Connects == { i \in DOMAIN ops : ops[i].op = "connect" }

C13_SingleSession == Cardinality(C13_Connects) <= 1

\* C14: when a pass has ended, in success or in failure, every connection it
\* opened has been closed.
C14_Opened == { i \in DOMAIN ops : ops[i].op = "connect" /\ ops[i].ok }
C14_Closed(i) == \E j \in (i + 1)..Len(ops) : ops[j].op = "close"

C14_ReleasedOnExit == Done => \A i \in C14_Opened : C14_Closed(i)

\* C15: in the restart path the settling delay comes right after a mount
\* that succeeded; no connection is opened between the first stop of the
\* pass and the end of the delay, and the delay precedes every restart-class
\* statement.
C15_IsFirstStop(i) ==
    ops[i].op = "stop" /\ \A h \in 1..(i - 1) : ops[h].op # "stop"

C15_DelayAfterMountBeforeConnect ==
    /\ \A k \in DOMAIN ops :
          ops[k].op = "sleep" => (k > 1 /\ ops[k - 1].op = "mount" /\ ops[k - 1].ok)
    /\ \A i, j \in DOMAIN ops :
          (C15_IsFirstStop(i) /\ i < j /\ ops[j].op = "connect")
          => \E k \in (i + 1)..(j - 1) : ops[k].op = "sleep"
    /\ \A j \in DOMAIN ops :
          (ops[j].op = "sql" /\ IsRestartStmt(ops[j]))
          => \E k \in 1..(j - 1) : ops[k].op = "sleep"
    /\ pc = "restart_execute_sql" => "sleep" \in IssuedKinds

C15_Witness ==
    /\ Succeeded
    /\ \E k \in DOMAIN ops :
          /\ k > 1 /\ k + 2 <= Len(ops)
          /\ ops[k - 1].op = "mount" /\ ops[k - 1].ok
          /\ ops[k].op = "sleep"
          /\ ops[k + 1].op = "connect" /\ ops[k + 1].ok
          /\ ops[k + 2].op = "sql" /\ IsRestartStmt(ops[k + 2]) /\ ops[k + 2].ok

\* C16: in cluster-managed mode on a RAC database, every stop, mount and
\* start of a restart cycle names the observed instance.
C16_Case == req.state = "present" /\ Observed /\ loc.gimanaged /\ loc.israc

C16_TargetsObservedInstance ==
    C16_Case =>
        \A i \in DOMAIN ops :
            ops[i].op \in {"stop", "mount", "start"} => ops[i].inst = loc.obs.instance_name

\* C17: a command run through module.run_command that exits non-zero (the
\* registry query, stop, mount, start, creation, removal, version probe) is
\* the last thing the pass issues and the pass ends in failure; a registry
\* query that exits non-zero is never followed by a creation or a success.
C17_Commands == {"config", "stop", "mount", "start", "create", "remove", "version"}

C17_NonZeroExitIsFailure ==
    /\ \A i \in DOMAIN ops :
          (ops[i].op \in C17_Commands /\ ~ops[i].ok) => (i = Len(ops) /\ Failed)
    /\ (loc.gimanaged /\ loc.exists # "unset" /\ loc.answer.rc # 0) =>
          ("create" \notin IssuedKinds /\ ~Succeeded)

\* C18: when neither the oracle_home parameter nor $ORACLE_HOME is set, or
\* no sys_password is given, the pass ends in failure and has issued no
\* create, remove, stop, start or statement.
C18_ConfigurationError ==
    \/ req.oracle_home = None /\ env.ORACLE_HOME = None
    \/ req.sys_password = None

C18_ConfigurationErrorFirst ==
    C18_ConfigurationError =>
        /\ IssuedKinds \cap ChangeOps = {}
        /\ Done => Failed

\* C19: against the observation the pass read, the restart list holds the
\* archivelog statement when, and only when, the archive-log mode diverges,
\* and nothing else; the no-restart list holds exactly one statement for each
\* of force logging, flashback, default tablespace type, default tablespace
\* and default temporary tablespace that diverges, and nothing else; a
\* tablespace that is not declared yields no statement.
C19_Case == req.state = "present" /\ Observed

C19_Diverges ==
    [archivelog |-> loc.obs.log_mode # (IF req.archivelog THEN "ARCHIVELOG" ELSE "NOARCHIVELOG"),
     force_logging |-> loc.obs.force_logging # (IF req.force_logging THEN "YES" ELSE "NO"),
     flashback |-> loc.obs.flashback_on # (IF req.flashback THEN "YES" ELSE "NO"),
     type |-> loc.obs.def_tbs_type # req.default_tablespace_type,
     tbs |-> req.default_tablespace # "None" /\ loc.obs.def_tbs # req.default_tablespace,
     temp |-> req.default_temp_tablespace # "None"
                 /\ loc.obs.def_temp_tbs # req.default_temp_tablespace]

C19_Planned(list, stmt) == Cardinality({ k \in DOMAIN list : list[k] = stmt })
C19_One(b) == IF b THEN 1 ELSE 0

C19_RestartClassification ==
    C19_Case =>
        LET d == C19_Diverges
            db == loc.change_db_sql
        IN  /\ loc.change_restart_sql =
                  (IF ~d.archivelog THEN <<>>
                   ELSE IF req.archivelog THEN <<Stmt("alter database archivelog", "")>>
                   ELSE <<Stmt("alter database noarchivelog", "")>>)
            /\ C19_Planned(db, IF req.force_logging
                               THEN Stmt("alter database force logging", "")
                               ELSE Stmt("alter database no force logging", ""))
                  = C19_One(d.force_logging)
            /\ C19_Planned(db, IF req.flashback
                               THEN Stmt("alter database flashback on", "")
                               ELSE Stmt("alter database flashback off", ""))
                  = C19_One(d.flashback)
            /\ C19_Planned(db, Stmt("alter database set default tablespace type",
                                    req.default_tablespace_type)) = C19_One(d.type)
            /\ C19_Planned(db, Stmt("alter database default tablespace",
                                    req.default_tablespace)) = C19_One(d.tbs)
            /\ C19_Planned(db, Stmt("alter database default temporary tablespace",
                                    req.default_temp_tablespace)) = C19_One(d.temp)
            /\ Len(db) = C19_One(d.force_logging) + C19_One(d.flashback) + C19_One(d.type)
                            + C19_One(d.tbs) + C19_One(d.temp)

C19_Witness ==
    /\ C19_Case
    /\ C19_Diverges.archivelog /\ C19_Diverges.flashback /\ ~C19_Diverges.force_logging
    /\ ~C19_Diverges.type /\ C19_Diverges.temp
    /\ req.default_tablespace = "None" /\ loc.obs.def_tbs # "None"
    /\ Len(loc.change_restart_sql) = 1 /\ Len(loc.change_db_sql) = 2

\* C20: state=started and an instance the locator does not find: the pass
\* ends in failure, reports no change, and has issued no start, creation or
\* statement.
C20_Case == req.state = "started" /\ NotFound

C20_StartedRequiresFound ==
    C20_Case =>
        /\ Failed /\ ~outcome.changed
        /\ IssuedKinds \cap {"start", "mount", "create", "sql"} = {}

C20_Witness == C20_Case /\ Done

\* C21: when check_db_exists of oracle_datapatch returns a falsy value,
\* datapatch is not run; the pass fails when fail_on_db_not_exist is true and
\* succeeds with changed=false when it is false.
C21_Case == loc.exists \in {"False", "None"}

C21_AbsentNeverPatched ==
    C21_Case =>
        /\ "datapatch" \notin IssuedKinds
        /\ IF req.fail_on_db_not_exist THEN Failed ELSE (Succeeded /\ ~outcome.changed)

C21_Witness == C21_Case /\ Done /\ ~req.fail_on_db_not_exist /\ ~loc.gimanaged

\* C22: in standalone mode every stop, mount and start runs through sqlplus
\* with ORACLE_SID set to the sid when one is given and to the database name
\* otherwise; srvctl is not used.
C22_Sqlplus ==
    [stop |-> "sqlplus shutdown immediate", mount |-> "sqlplus startup mount",
     start |-> "sqlplus startup"]

C22_StandaloneBinding ==
    (pc # "main" /\ ~env.olr) =>
        \A i \in DOMAIN ops :
            ops[i].op \in DOMAIN C22_Sqlplus =>
                /\ ops[i].target = (IF req.sid # None THEN req.sid ELSE req.db_name)
                /\ ops[i].cmd = C22_Sqlplus[ops[i].op]

C22_Witness ==
    /\ ~env.olr /\ req.sid # None /\ Succeeded
    /\ \A k \in DOMAIN C22_Sqlplus :
          \E i \in DOMAIN ops :
              ops[i].op = k /\ ops[i].ok /\ ops[i].target = req.sid
                 /\ ops[i].cmd = C22_Sqlplus[k]

\* C23: when flashback on implies archivelog in the observed state and in
\* the declared state, the instance has flashback off at the moment "alter
\* database noarchivelog" is issued and is in archivelog mode at the moment
\* "alter database flashback on" is issued.
C23_Case ==
    /\ req.state = "present" /\ Observed
    /\ req.flashback => req.archivelog
    /\ loc.obs.flashback_on = "YES" => loc.obs.log_mode = "ARCHIVELOG"

C23_NextStatement(label, sql) == pc = label /\ Head(loc.todo).sql = sql

C23_DependencyKept ==
    C23_Case =>
        /\ C23_NextStatement("restart_execute_sql", "alter database noarchivelog")
              => live.flashback_on = "NO"
        /\ C23_NextStatement("norestart_execute_sql", "alter database flashback on")
              => live.log_mode = "ARCHIVELOG"

C23_Witness ==
    /\ C23_Case
    /\ loc.obs.flashback_on = "YES"
    /\ C23_NextStatement("restart_execute_sql", "alter database noarchivelog")
    /\ live.flashback_on = "NO"

C23_WitnessFlashbackOn ==
    /\ C23_Case
    /\ loc.obs.log_mode = "NOARCHIVELOG"
    /\ C23_NextStatement("norestart_execute_sql", "alter database flashback on")
    /\ live.log_mode = "ARCHIVELOG"

\* C24: the values ensure_db_state takes as observed default tablespace type,
\* default tablespace and default temporary tablespace are the instance's
\* DEFAULT_TBS_TYPE, DEFAULT_PERMANENT_TABLESPACE and DEFAULT_TEMP_TABLESPACE,
\* in whatever order the three values sort.
C24_JustObserved == Observed /\ IssuedKinds \cap {"sql", "stop"} = {}

C24_ObservationSlots ==
    C24_JustObserved =>
        /\ loc.obs.def_tbs_type = live.default_tbs_type
        /\ loc.obs.def_tbs = live.default_permanent_tablespace
        /\ loc.obs.def_temp_tbs = live.default_temp_tablespace

\* C25: on the registry answer "exists in a different home" (non-zero exit
\* with PRCD-1229) check_db_exists of oracle_datapatch returns not found
\* where check_db_exists of oracle_db ends the pass in failure; on every
\* other registry answer and on every /etc/oratab the two give the same
\* verdict: found, not found or divergent.
C25_Verdict(v) ==
    IF v = "True" THEN "Found" ELSE IF v = "fail_json" THEN "Divergent" ELSE "NotFound"

C25_OracleDb ==
    check_db_exists(loc.gimanaged, loc.answer, oratab, loc.oracle_home,
                    req.db_name, req.sid, req.db_unique_name)

C25_DifferentHomeAnswer ==
    loc.gimanaged /\ loc.answer.rc # 0 /\ "PRCD-1229" \in loc.answer.stdout

C25_DisagreeOnDifferentHomeOnly ==
    loc.exists # "unset" =>
        IF C25_DifferentHomeAnswer
        THEN C25_Verdict(loc.exists) = "NotFound" /\ C25_Verdict(C25_OracleDb) = "Divergent"
        ELSE C25_Verdict(loc.exists) = C25_Verdict(C25_OracleDb)

\* C26: when a pass for state=present ends in success, the instance's
\* archive-log mode, force logging, flashback and default tablespace type
\* equal the declared values, and the default tablespace and default
\* temporary tablespace equal the declared names when declared.
C26_LiveEqualsDeclared ==
    /\ live.log_mode = (IF req.archivelog THEN "ARCHIVELOG" ELSE "NOARCHIVELOG")
    /\ live.force_logging = (IF req.force_logging THEN "YES" ELSE "NO")
    /\ live.flashback_on = (IF req.flashback THEN "YES" ELSE "NO")
    /\ live.default_tbs_type = req.default_tablespace_type
    /\ req.default_tablespace # "None" =>
          live.default_permanent_tablespace = req.default_tablespace
    /\ req.default_temp_tablespace # "None" =>
          live.default_temp_tablespace = req.default_temp_tablespace

C26_ConvergedOnSuccess ==
    (req.state = "present" /\ Succeeded) => C26_LiveEqualsDeclared

\* C27: a pass whose outcome, success or failure, carries changed=false has
\* executed no create, remove, stop, mount, start or statement successfully.
C27_ChangedSomething ==
    \E i \in DOMAIN ops : ops[i].op \in ChangeOps /\ ops[i].ok

C27_UnchangedMeansUntouched ==
    (Done /\ ~outcome.changed) => ~C27_ChangedSomething

\* C28: when a pass for state=present ends in success the instance is open,
\* whichever batch ran first; the instance is stopped or mounted at the end
\* of a pass only when the pass failed.
C28_Case == req.state = "present" /\ Done /\ live.exists

C28_OpenAfterSuccess ==
    /\ (C28_Case /\ Succeeded) => live.status = "open"
    /\ (C28_Case /\ live.status \in {"stopped", "mounted"}) => Failed

C28_RanRestartCycle ==
    \E i, j \in DOMAIN ops :
        /\ i < j
        /\ ops[i].op = "stop" /\ ops[i].ok
        /\ ops[j].op = "start" /\ ops[j].ok

C28_Witness ==
    /\ C28_Case /\ Succeeded /\ live.status = "open"
    /\ C28_RanRestartCycle
    /\ loc.change_db_sql # <<>>
    /\ loc.obs.flashback_on = "YES" /\ ~req.flashback /\ ~req.archivelog

\* C29: in standalone mode, when no entry of /etc/oratab has the requested
\* name or the requested sid as its key, check_db_exists of oracle_db reports
\* not found, also when a key contains the requested name.
C29_NoEntryForRequest ==
    \A i \in DOMAIN oratab :
        C4_IsEntry(oratab[i]) =>
            SplitColon(oratab[i])[1] \notin ({req.db_name, req.sid} \ {None})

C29_WholeKeyMatch ==
    (~loc.gimanaged /\ loc.exists # "unset" /\ C29_NoEntryForRequest) => NotFound

\* C30: every pass that starts reaches its end, has exactly one outcome
\* there and none before, and issues nothing after it: the only step from
\* the end of a pass is the start of the next run of the module.
C30_OneOutcome ==
    (pc = "done") <=> (outcome.result \in {"exit_json", "fail_json"})

C30_NothingAfterOutcome ==
    pc = "done" => (pc' = "main" /\ ops' = <<>> /\ outcome' = NoOutcome /\ live' = live)

C30_TerminatesWithOneOutcome ==
    /\ [](pc = "main" => <>(pc = "done"))
    /\ []C30_OneOutcome
    /\ [][C30_NothingAfterOutcome]_vars

C30_Witness == Done /\ Failed /\ Len(ops) >= 4 /\ C30_OneOutcome

\* C31: with state=started and a found instance the pass issues exactly one
\* start and nothing else that touches the instance: no stop, no mount, no
\* connection, no query, no statement, no create, no remove. The start is
\* the last thing the pass issues, the pass succeeds exactly when the start
\* does, and it then reports changed=true, whatever the declared properties
\* are and whether or not the instance was already open.
C31_Case == req.state = "started" /\ loc.exists = "True"

C31_IsStart(o) == o.op = "start"

C31_Starts == SelectSeq(ops, C31_IsStart)

C31_StartedOnlyStarts ==
    C31_Case =>
        /\ IssuedKinds \subseteq {"version", "config", "start"}
        /\ Len(C31_Starts) <= 1
        /\ Done <=> Len(C31_Starts) = 1
        /\ Done => C31_IsStart(ops[Len(ops)])
        /\ Done => (Succeeded <=> ops[Len(ops)].ok)
        /\ Succeeded => outcome.changed
        /\ ~Done => pc = "start_db"

\* the second of two successful passes for state=started: the instance was
\* left open by the first, and the second starts it and reports changed=true
C31_Witness ==
    /\ C31_Case /\ Succeeded /\ outcome.changed
    /\ pass = 2 /\ history[1].changed
    /\ Len(C31_Starts) = 1 /\ C31_Starts[1].ok
    /\ live.status = "open"
    /\ req.archivelog /\ live.log_mode = "NOARCHIVELOG"

\* C32: in every pass the restart list holds at most one statement, so the
\* lifecycle operations and the statements apply_restart_changes issues form
\* at most one cycle stop, mount, statement, stop, start: one mount at most,
\* one start at most, and every statement of the restart list is executed
\* on the mounted instance, after the mount of the pass and before any start.
C32_InRestartBatch ==
    pc \in {"restart_start_instance", "restart_getconn", "restart_execute_sql",
            "restart_stop_db", "restart_start_db"}

C32_IsCycleOp(o) ==
    o.op \in {"stop", "mount", "start"} \/ (o.op = "sql" /\ IsRestartStmt(o))

C32_CycleOps == SelectSeq(ops, C32_IsCycleOp)

C32_Count(kind) == Cardinality({ i \in DOMAIN ops : ops[i].op = kind })

C32_CycleKinds == [i \in DOMAIN C32_CycleOps |-> C32_CycleOps[i].op]

C32_AtMostOneRestartCycle ==
    req.state = "present" =>
        /\ Len(loc.change_restart_sql) <= 1
        /\ pc \in {"restart_execute_sql", "restart_stop_db", "restart_start_db"}
              => loc.todo = loc.change_restart_sql
        /\ IsPrefix(C32_CycleKinds, <<"stop", "mount", "sql", "stop", "start">>)
        /\ C32_Count("mount") <= 1 /\ C32_Count("start") <= 1 /\ C32_Count("stop") <= 2
        /\ \A i \in DOMAIN ops :
              (ops[i].op = "sql" /\ IsRestartStmt(ops[i])) =>
                  /\ ops[i].stmt = loc.change_restart_sql[1]
                  /\ \E j \in 1..(i - 1) : ops[j].op = "mount" /\ ops[j].ok
                  /\ \A j \in 1..(i - 1) : ops[j].op # "start"
        /\ pc = "restart_execute_sql" => live.status = "mounted"
        /\ (C32_InRestartBatch /\ pc # "restart_execute_sql") => live.status # "open"

\* a pass that ran the whole cycle once, then the no-restart batch on the
\* instance open again, and succeeded
C32_Witness ==
    /\ req.state = "present" /\ Succeeded
    /\ Len(loc.change_restart_sql) = 1
    /\ C32_CycleKinds = <<"stop", "mount", "sql", "stop", "start">>
    /\ \A i \in DOMAIN C32_CycleOps : C32_CycleOps[i].ok
    /\ loc.change_db_sql # <<>>
    /\ ops[Len(ops)].op = "sql" /\ ~IsRestartStmt(ops[Len(ops)])
    /\ live.status = "open"

====
